---------------------------- MODULE Spec2Model ----------------------------
(***************************************************************************)
(* Model of audio-feeder's derived-rendition pipeline.                     *)
(*                                                                         *)
(*   Spec      media_renderer.Renderer: trigger_rendering, the executor    *)
(*             that runs the submitted RenderJobs and the detached         *)
(*             render_complete_callback thread.                            *)
(*             One output directory (one (entry, mode) key) is modelled;   *)
(*             directories of different keys share no state.  Every        *)
(*             request runs in its own thread and calls trigger_rendering  *)
(*             once, so a batch of jobs is named by the request that       *)
(*             planned it.                                                 *)
(*   LiveSpec  Spec with the fairness the thread scheduler gives, over     *)
(*             batches of up to LiveMaxJobs jobs.                          *)
(*   FeedSpec  pages.derived_rss_feed: Spec with batches of up to          *)
(*             LiveMaxJobs jobs, every request going on to serve the feed  *)
(*             document after trigger_rendering.                           *)
(*   MapSpec   m4btools.render_jobs: one call of executor.map over a batch *)
(*             of RenderJobs, run by a pool of max_workers threads.        *)
(*   SegSpec   segmenter.segment applied to every sequence of up to MaxLen *)
(*             values under every cost function with costs 0..MaxCost.     *)
(*   JobSpec   m4btools.RenderJob.__call__ on every job of up to           *)
(*             MaxSubsets file subsets.                                    *)
(*   ChapterSpec  file_probe.get_multipath_chapter_info on every list of   *)
(*             up to MaxFiles probed files that hold up to MaxChapters     *)
(*             embedded chapters together.                                 *)
(*   MergeSpec  functools.reduce(m4btools._merge_file_infos, ...) over the *)
(*             FileInfos of the same inputs, one call per step.            *)
(*   SplitSpec  m4btools.calculate_chapter_splits on the same inputs, one  *)
(*             iteration of its loop per step.                             *)
(*   DegenerateSpec  SplitSpec on files whose embedded chapters can end at *)
(*             or before their start.                                      *)
(*   MarkerSpec  get_multipath_chapter_info on one file that it has to     *)
(*             probe itself, whose chapters FileInfo.from_json builds from *)
(*             the prober's report or from the legacy marker tag.          *)
(*   SegmentsSpec  m4btools.calculate_segments on the same inputs, with    *)
(*             an asymmetric cost function about every target in Targets.  *)
(*   SidecarSpec  Renderer.write_file_metadata and read_file_metadata on   *)
(*             one mapping of output files.                                *)
(*   HashSpec  media_renderer.Renderer.make_hash called on one job at any  *)
(*             time, while the job is rendered and the entry's file hashes *)
(*             are stored.                                                 *)
(***************************************************************************)
EXTENDS Integers, Sequences, FiniteSets, TLC

(***************************************************************************)
(* Bounds.                                                                 *)
(***************************************************************************)
NumRequests ==
    2

MaxJobs ==
    2

LiveMaxJobs ==
    1

MapJobs ==
    4

max_workers ==
    2

MaxLen ==
    3

MaxCost ==
    2

MaxSubsets ==
    2

MaxFiles ==
    2

MaxChapters ==
    3

(***************************************************************************)
(* State.                                                                  *)
(***************************************************************************)
VARIABLES
    ACTIVE_JOBS,      \* media_renderer.ACTIVE_JOBS: the in-flight keys
    pc,               \* position of every request thread
    job,              \* per request, per job: state of the job's future
    cb,               \* per request: position of its render_complete_callback thread
    render_complete,  \* .render_complete: 0 = absent, else the batch whose callback wrote it
    default,          \* .default exists in media_path
    file_metadata,    \* .file_metadata: 0 = absent, else the request whose jobs it describes
    rss_file,         \* the cached feed document exists in media_path
    fs,               \* render_jobs: the futures of executor.map, in job order
    map_pc,           \* render_jobs: position of the caller
    next_result,      \* render_jobs: index of the future the result iterator waits for
    values,           \* segment: the input sequence
    cost_func,        \* segment: the cost of every contiguous group of values
    out_sequence,     \* segment: the returned groups, <<>> before the call
    file_inputs,      \* RenderJob.file_inputs of the job that is called
    dispatched,       \* RenderJob.__call__: the function it called, with its subsets
    fpaths,           \* the ordered input files of a planning call
    file_infos,       \* per input file: the FileInfo the probe returns
    fall_back_to_durations,  \* get_multipath_chapter_info: the flag
    returned,         \* the planning function that has returned, "" before the call
    out,              \* get_multipath_chapter_info: the (fpath, chapter) pairs it returns
    n_merged,         \* reduce: the number of FileInfos folded in so far
    merge_args,       \* _merge_file_infos: (f1, f2) of the last call
    merged,           \* _merge_file_infos: the FileInfo the last call returned
    job_pool,         \* calculate_chapter_splits: the RenderJobs made so far
    last_file,        \* calculate_chapter_splits: the file of the last chapter
    n_planned,        \* calculate_chapter_splits: the chapters the loop has taken
    target,           \* calculate_segments: the target of its cost function
    segmented,        \* calculate_segments: the groups segment returned
    job_queue,        \* calculate_segments: the RenderJobs it returns
    disk,             \* make_hash: per input file, its blocks on disk
    entry,            \* make_hash: .hashseed and .file_hashes of the entry
    hash_job,         \* make_hash: the RenderJob that is hashed
    render_phase,     \* make_hash: how far the rendering of hash_job is
    kept_hash,        \* make_hash: an earlier call, <<>> when none is kept
    new_hash,         \* make_hash: the last call, <<>> before the first
    probe_json,       \* per file that is to be probed: what the prober reports
    feed_pc,          \* derived_rss_feed: per request, its position after trigger_rendering
    rss_early,        \* the cached feed document was made before .render_complete was there
    metadata_in,      \* write_file_metadata: the mapping it is given, <<>> when none
    json_obj,         \* the list stored in .file_metadata, <<>> before it is written
    metadata_out      \* read_file_metadata: the mapping it returned, <<>> before

renderer_vars ==
    <<ACTIVE_JOBS, pc, job, cb,
      render_complete, default, file_metadata, rss_file>>

map_vars ==
    <<fs, map_pc, next_result>>

seg_vars ==
    <<values, cost_func, out_sequence>>

job_vars ==
    <<file_inputs, dispatched>>

\* The state of the planning functions and of the jobs they make.
plan_input_vars ==
    <<fpaths, file_infos, fall_back_to_durations, probe_json>>

merge_vars ==
    <<n_merged, merge_args, merged>>

split_vars ==
    <<job_pool, last_file, n_planned>>

segments_vars ==
    <<target, segmented, job_queue>>

plan_vars ==
    <<plan_input_vars, returned, out, merge_vars, split_vars, segments_vars>>

hash_vars ==
    <<disk, entry, hash_job, render_phase, kept_hash, new_hash>>

feed_vars ==
    <<feed_pc, rss_early>>

sidecar_vars ==
    <<metadata_in, json_obj, metadata_out>>

planner_vars ==
    <<job_vars, plan_vars, hash_vars, feed_vars, sidecar_vars>>

vars ==
    <<renderer_vars, map_vars, seg_vars, planner_vars>>

\* What the orchestrator, render_jobs, segment and a job leave alone.
outside_renderer ==
    <<map_vars, seg_vars, planner_vars>>

outside_map ==
    <<renderer_vars, seg_vars, planner_vars>>

outside_seg ==
    <<renderer_vars, map_vars, planner_vars>>

outside_job ==
    <<renderer_vars, map_vars, seg_vars, plan_vars, hash_vars, feed_vars,
      sidecar_vars>>

outside_plan ==
    <<renderer_vars, map_vars, seg_vars, job_vars, hash_vars, feed_vars,
      sidecar_vars>>

outside_hash ==
    <<renderer_vars, map_vars, seg_vars, job_vars, plan_vars, feed_vars,
      sidecar_vars>>

\* What derived_rss_feed leaves alone after trigger_rendering.
outside_feed ==
    <<map_vars, seg_vars, job_vars, plan_vars, hash_vars, sidecar_vars>>

\* What the sidecar's writer and reader leave alone.
outside_sidecar ==
    <<renderer_vars, map_vars, seg_vars, job_vars, plan_vars, hash_vars, feed_vars>>

Requests ==
    1..NumRequests

JobIds ==
    1..MaxJobs

media_path ==
    "media_path"

\* The batch of an earlier server process, whose output directory is still
\* on disk when this process starts.
previous_run ==
    NumRequests + 1

\* RenderJob classes that matter to the orchestrator: is_copy_job() or not.
JobKinds ==
    {"copy", "encode"}

\* The job lists a planner can return: non-empty, up to n jobs.
Plans(n) ==
    UNION {[1..m -> JobKinds] : m \in 1..n}

(***************************************************************************)
(* Renderer predicates.                                                    *)
(***************************************************************************)
is_render_complete ==
    render_complete # 0

is_default ==
    default

\* RenderJob.is_copy_job, on the job class.
is_copy_job(k) ==
    k = "copy"

\* all(x.is_copy_job() for x in jobs)
all_copy(p) ==
    \A i \in 1..Len(p) : is_copy_job(p[i])

\* Variant of already_rendering that forgets is_render_complete().
already_rendering_ignores_marker ==
    media_path \in ACTIVE_JOBS

\* The early return of trigger_rendering.
already_rendering ==
    media_path \in ACTIVE_JOBS \/ is_render_complete

\* The futures handed to the callback of request t.
rendering_futures(t) ==
    {i \in JobIds : job[t][i] # "none"}

\* A future is finished when its job returned or raised.
finished(t, i) ==
    job[t][i] \in {"done", "failed"}

\* The futures of request t that raised.
exceptions(t) ==
    {i \in JobIds : job[t][i] = "failed"}

(***************************************************************************)
(* Initial state: the process starts with nothing in flight; media_path   *)
(* is empty or holds the finished render of an earlier process.            *)
(***************************************************************************)
RendererInit ==
    /\ ACTIVE_JOBS = {}
    /\ pc = [t \in Requests |-> "start"]
    /\ job = [t \in Requests |-> [i \in JobIds |-> "none"]]
    /\ cb = [t \in Requests |-> "none"]
    /\ default = FALSE
    /\ \/ /\ render_complete = 0
          /\ file_metadata = 0
          /\ rss_file = FALSE
       \/ /\ render_complete = previous_run
          /\ file_metadata = previous_run
          /\ rss_file = TRUE

\* No request has arrived and media_path is empty.
RendererIdle ==
    /\ RendererInit
    /\ render_complete = 0

\* render_jobs has not been called.
MapIdle ==
    /\ fs = <<>>
    /\ map_pc = "idle"
    /\ next_result = 0

\* segment has not been called.
SegIdle ==
    /\ values = <<>>
    /\ cost_func = <<>>
    /\ out_sequence = <<>>

\* No job has been called.
JobIdle ==
    /\ file_inputs = <<>>
    /\ dispatched = <<>>

\* No planning function has been called.
PlanIdle ==
    /\ fpaths = <<>>
    /\ file_infos = <<>>
    /\ fall_back_to_durations = FALSE
    /\ probe_json = <<>>
    /\ returned = ""
    /\ out = <<>>
    /\ n_merged = 0
    /\ merge_args = <<>>
    /\ merged = <<>>
    /\ job_pool = <<>>
    /\ last_file = 0 - 1
    /\ n_planned = 0
    /\ target = 0
    /\ segmented = <<>>
    /\ job_queue = <<>>

\* No job has been hashed.
HashIdle ==
    /\ disk = <<>>
    /\ entry = <<>>
    /\ hash_job = <<>>
    /\ render_phase = ""
    /\ kept_hash = <<>>
    /\ new_hash = <<>>

\* No feed is requested.
FeedIdle ==
    /\ feed_pc = <<>>
    /\ rss_early = FALSE

\* No sidecar is written or read.
SidecarIdle ==
    /\ metadata_in = <<>>
    /\ json_obj = <<>>
    /\ metadata_out = <<>>

PlannerIdle ==
    /\ JobIdle
    /\ PlanIdle
    /\ HashIdle
    /\ FeedIdle
    /\ SidecarIdle

dir_vars ==
    <<render_complete, default, file_metadata, rss_file>>

pool_vars ==
    <<job, cb>>

(***************************************************************************)
(* Renderer.trigger_rendering, one action per step between the points at   *)
(* which another thread can run.                                           *)
(***************************************************************************)
\* Line 111-112: the admission check, made without JOB_LOCK.  Requests are
\* numbered in the order in which they reach the check.
trigger_check(t) ==
    /\ pc[t] = "start"
    /\ \A u \in Requests : u < t => pc[u] # "start"
    /\ IF already_rendering
         THEN pc' = [pc EXCEPT ![t] = "done"]
         ELSE pc' = [pc EXCEPT ![t] = "add"]
    /\ UNCHANGED <<ACTIVE_JOBS, pool_vars, dir_vars>>
    /\ UNCHANGED outside_renderer

\* Line 114-115: with JOB_LOCK: ACTIVE_JOBS.add(media_path)
trigger_add(t) ==
    /\ pc[t] = "add"
    /\ ACTIVE_JOBS' = ACTIVE_JOBS \cup {media_path}
    /\ pc' = [pc EXCEPT ![t] = "clear"]
    /\ UNCHANGED <<pool_vars, dir_vars>>
    /\ UNCHANGED outside_renderer

\* Line 118-126: create the directory and delete everything in it.
clear_media_path ==
    /\ render_complete' = 0
    /\ default' = FALSE
    /\ file_metadata' = 0
    /\ rss_file' = FALSE

\* Line 118-152: clear the directory, resolve the input files and plan the
\* jobs of the mode.  Planning reads the source files only and its result,
\* the local `jobs`, is first used by the next step, which draws it; a
\* submitted future carries the class of its job.
trigger_plan(t) ==
    /\ pc[t] = "clear"
    /\ clear_media_path
    /\ pc' = [pc EXCEPT ![t] = "submit"]
    /\ UNCHANGED <<ACTIVE_JOBS, pool_vars>>
    /\ UNCHANGED outside_renderer

\* Line 118-152 with planning raising (probe failure, no chapters, missing
\* file, ...).
trigger_plan_raises(t) ==
    /\ pc[t] = "clear"
    /\ clear_media_path
    /\ pc' = [pc EXCEPT ![t] = "except"]
    /\ UNCHANGED <<ACTIVE_JOBS, pool_vars>>
    /\ UNCHANGED outside_renderer

\* Line 154-167: mark as default or submit every job, then start the
\* thread that runs render_complete_callback on the futures.
\* Variant of submit_jobs that hands copy-only batches to the executor too.
submit_jobs_without_default(t, planned) ==
    /\ job' = [job EXCEPT ![t] =
                [i \in JobIds |-> IF i <= Len(planned) THEN planned[i] ELSE "none"]]
    /\ UNCHANGED default
    /\ cb' = [cb EXCEPT ![t] = "wait"]

submit_jobs(t, planned) ==
    /\ IF all_copy(planned)
         THEN /\ default' = TRUE
              /\ UNCHANGED job
         ELSE /\ job' = [job EXCEPT ![t] =
                           [i \in JobIds |-> IF i <= Len(planned) THEN planned[i]
                                                                  ELSE "none"]]
              /\ UNCHANGED default
    /\ cb' = [cb EXCEPT ![t] = "wait"]

trigger_submit(t, plans) ==
    /\ pc[t] = "submit"
    /\ \E planned \in plans : submit_jobs(t, planned)
    /\ pc' = [pc EXCEPT ![t] = "meta"]
    /\ UNCHANGED <<ACTIVE_JOBS, render_complete, file_metadata, rss_file>>
    /\ UNCHANGED outside_renderer

\* Line 169-177: hash every job and write the .file_metadata sidecar.
trigger_write_file_metadata(t) ==
    /\ pc[t] = "meta"
    /\ file_metadata' = t
    /\ pc' = [pc EXCEPT ![t] = "done"]
    /\ UNCHANGED <<ACTIVE_JOBS, pool_vars, render_complete, default, rss_file>>
    /\ UNCHANGED outside_renderer

\* Line 169-177 raising (hashseed assertion, make_hash, open/json.dump).
trigger_metadata_raises(t) ==
    /\ pc[t] = "meta"
    /\ pc' = [pc EXCEPT ![t] = "except"]
    /\ UNCHANGED <<ACTIVE_JOBS, pool_vars, dir_vars>>
    /\ UNCHANGED outside_renderer

\* Variant of trigger_except that re-raises without releasing the key.
trigger_except_keeps_key(t) ==
    /\ pc[t] = "except"
    /\ pc' = [pc EXCEPT ![t] = "done"]
    /\ UNCHANGED <<ACTIVE_JOBS, pool_vars, dir_vars>>
    /\ UNCHANGED outside_renderer

\* Line 179-182: release the key and re-raise to the caller: the request
\* fails.  set.remove raises KeyError when the key is absent.
trigger_except(t) ==
    /\ pc[t] = "except"
    /\ ACTIVE_JOBS' = ACTIVE_JOBS \ {media_path}
    /\ pc' = [pc EXCEPT ![t] = "done"]
    /\ UNCHANGED <<pool_vars, dir_vars>>
    /\ UNCHANGED outside_renderer

(***************************************************************************)
(* The executor runs every submitted job; the order in which the futures   *)
(* finish is not constrained.  RenderJob.__call__ copies the file or runs  *)
(* the encoder; the encoder exiting non-zero raises IOError, which the     *)
(* future records.  A pending future carries the class of its job.         *)
(***************************************************************************)
\* shutil.copyfile returned, or the encoder exited with status 0.
job_done(t, i) ==
    /\ job[t][i] \in JobKinds
    /\ job' = [job EXCEPT ![t][i] = "done"]
    /\ UNCHANGED <<ACTIVE_JOBS, pc, cb, dir_vars>>
    /\ UNCHANGED outside_renderer

\* proc.returncode != 0: raise IOError (m4btools._extract_subset, _merge_subsets).
job_fail(t, i) ==
    /\ job[t][i] \in JobKinds
    /\ ~is_copy_job(job[t][i])
    /\ job' = [job EXCEPT ![t][i] = "failed"]
    /\ UNCHANGED <<ACTIVE_JOBS, pc, cb, dir_vars>>
    /\ UNCHANGED outside_renderer

(***************************************************************************)
(* Renderer.render_complete_callback, run in its own thread per batch.     *)
(***************************************************************************)
\* Variant of callback_wait that never sets exception_found.
callback_wait_ignores_exceptions(t) ==
    /\ cb[t] = "wait"
    /\ \A i \in rendering_futures(t) : finished(t, i)
    /\ cb' = [cb EXCEPT ![t] = "unlink"]
    /\ job' = [job EXCEPT ![t] = [i \in JobIds |-> "none"]]
    /\ UNCHANGED <<ACTIVE_JOBS, pc, dir_vars>>
    /\ UNCHANGED outside_renderer

\* Line 93-99: wait for every future; every exception is logged and sets
\* exception_found.  Nothing reads the futures afterwards.
callback_wait(t) ==
    /\ cb[t] = "wait"
    /\ \A i \in rendering_futures(t) : finished(t, i)
    /\ cb' = [cb EXCEPT ![t] = IF exceptions(t) = {} THEN "unlink" ELSE "failed"]
    /\ job' = [job EXCEPT ![t] = [i \in JobIds |-> "none"]]
    /\ UNCHANGED <<ACTIVE_JOBS, pc, dir_vars>>
    /\ UNCHANGED outside_renderer

\* Line 101-104: delete the cached feed document if there is one.
callback_unlink_rss(t) ==
    /\ cb[t] = "unlink"
    /\ rss_file' = FALSE
    /\ cb' = [cb EXCEPT ![t] = "mark"]
    /\ UNCHANGED <<ACTIVE_JOBS, pc, job, render_complete, default, file_metadata>>
    /\ UNCHANGED outside_renderer

\* Line 105: _mark_render_complete
callback_mark_render_complete(t) ==
    /\ cb[t] = "mark"
    /\ render_complete' = t
    /\ cb' = [cb EXCEPT ![t] = "release"]
    /\ UNCHANGED <<ACTIVE_JOBS, pc, job, default, file_metadata, rss_file>>
    /\ UNCHANGED outside_renderer

\* Line 106-108: finally: with JOB_LOCK: ACTIVE_JOBS.remove(media_path);
\* set.remove raises KeyError in the thread when the key is absent.
callback_release(t) ==
    /\ cb[t] \in {"release", "failed"}
    /\ ACTIVE_JOBS' = ACTIVE_JOBS \ {media_path}
    /\ cb' = [cb EXCEPT ![t] = IF cb[t] = "failed" THEN "done_failed" ELSE "done"]
    /\ UNCHANGED <<pc, job, dir_vars>>
    /\ UNCHANGED outside_renderer

(***************************************************************************)
(* Specification of the orchestrator.                                      *)
(***************************************************************************)
trigger_rendering(t, plans) ==
    \/ trigger_check(t)
    \/ trigger_add(t)
    \/ trigger_plan(t)
    \/ trigger_plan_raises(t)
    \/ trigger_submit(t, plans)
    \/ trigger_write_file_metadata(t)
    \/ trigger_metadata_raises(t)
    \/ trigger_except(t)

render_complete_callback(t) ==
    \/ callback_wait(t)
    \/ callback_unlink_rss(t)
    \/ callback_mark_render_complete(t)
    \/ callback_release(t)

executor ==
    \/ \E t \in Requests, i \in JobIds : job_done(t, i)
    \/ \E t \in Requests, i \in JobIds : job_fail(t, i)

Init ==
    /\ RendererInit
    /\ MapIdle
    /\ SegIdle
    /\ PlannerIdle

Next ==
    \/ \E t \in Requests : trigger_rendering(t, Plans(MaxJobs))
    \/ executor
    \/ \E t \in Requests : render_complete_callback(t)

Spec ==
    Init /\ [][Next]_vars

(***************************************************************************)
(* Fairness: the threads that have been started keep being scheduled: a   *)
(* request thread inside trigger_rendering, a worker running a submitted   *)
(* job (every job terminates) and a callback thread.  Requests themselves  *)
(* need not arrive.  Every thread takes a bounded number of steps, so weak *)
(* fairness of the joint step runs each of them to its end.                *)
(***************************************************************************)
trigger_progress(t) ==
    \/ trigger_add(t)
    \/ trigger_plan(t)
    \/ trigger_plan_raises(t)
    \/ trigger_submit(t, Plans(LiveMaxJobs))
    \/ trigger_write_file_metadata(t)
    \/ trigger_metadata_raises(t)
    \/ trigger_except(t)

thread_step ==
    \/ \E t \in Requests : trigger_progress(t)
    \/ executor
    \/ \E t \in Requests : render_complete_callback(t)

LiveNext ==
    \/ \E t \in Requests : trigger_rendering(t, Plans(LiveMaxJobs))
    \/ executor
    \/ \E t \in Requests : render_complete_callback(t)

LiveSpec ==
    Init /\ [][LiveNext]_vars /\ WF_vars(thread_step)

(***************************************************************************)
(* pages.derived_rss_feed: every request calls trigger_rendering and, when *)
(* that returns, serves the feed document of the output directory, which   *)
(* it generates from the sidecar when the directory holds none.  Batches   *)
(* have up to LiveMaxJobs jobs.                                            *)
(***************************************************************************)
FeedInit ==
    /\ RendererInit
    /\ feed_pc = [t \in Requests |-> "trigger"]
    /\ rss_early = FALSE
    /\ MapIdle
    /\ SegIdle
    /\ JobIdle
    /\ PlanIdle
    /\ HashIdle
    /\ SidecarIdle

\* media_renderer.py line 179-182, as trigger_except: the exception leaves
\* derived_rss_feed too (pages.py line 204) and the request fails.
feed_trigger_except(t) ==
    /\ pc[t] = "except"
    /\ ACTIVE_JOBS' = ACTIVE_JOBS \ {media_path}
    /\ pc' = [pc EXCEPT ![t] = "done"]
    /\ feed_pc' = [feed_pc EXCEPT ![t] = "raised"]
    /\ UNCHANGED <<pool_vars, dir_vars, rss_early>>
    /\ UNCHANGED outside_feed

\* pages.py line 207-210: redirect to the default feed, or go on.
feed_is_default(t) ==
    /\ pc[t] = "done"
    /\ feed_pc[t] = "trigger"
    /\ feed_pc' = [feed_pc EXCEPT ![t] = IF is_default THEN "redirected" ELSE "exists"]
    /\ UNCHANGED <<renderer_vars, rss_early>>
    /\ UNCHANGED outside_feed

\* pages.py line 212: if not renderer.rss_file.exists()
feed_rss_exists(t) ==
    /\ feed_pc[t] = "exists"
    /\ feed_pc' = [feed_pc EXCEPT ![t] = IF rss_file THEN "serve" ELSE "read"]
    /\ UNCHANGED <<renderer_vars, rss_early>>
    /\ UNCHANGED outside_feed

\* pages.py line 213-232: read the sidecar (open raises FileNotFoundError
\* when it is missing) and build the document from it and from the files
\* of the directory, while some job of the key may still be pending.
feed_read_file_metadata(t) ==
    /\ feed_pc[t] = "read"
    /\ feed_pc' = [feed_pc EXCEPT ![t] =
                     IF file_metadata = 0
                       THEN "sidecar_missing"
                       ELSE IF \E u \in Requests, i \in JobIds : job[u][i] \in JobKinds
                              THEN "write_early"
                              ELSE "write"]
    /\ UNCHANGED <<renderer_vars, rss_early>>
    /\ UNCHANGED outside_feed

\* pages.py line 233: renderer.rss_file.write_text(rss_file_contents)
feed_write_rss(t) ==
    /\ feed_pc[t] \in {"write", "write_early"}
    /\ rss_file' = TRUE
    /\ rss_early' = (feed_pc[t] = "write_early")
    /\ feed_pc' = [feed_pc EXCEPT ![t] = "serve"]
    /\ UNCHANGED <<ACTIVE_JOBS, pc, pool_vars, render_complete, default, file_metadata>>
    /\ UNCHANGED outside_feed

\* pages.py line 234-236: the response reads the document from the file.
feed_serve(t) ==
    /\ feed_pc[t] = "serve"
    /\ feed_pc' = [feed_pc EXCEPT ![t] = IF rss_file THEN "served" ELSE "rss_missing"]
    /\ UNCHANGED <<renderer_vars, rss_early>>
    /\ UNCHANGED outside_feed

feed_trigger_rendering(t) ==
    \/ trigger_check(t)
    \/ trigger_add(t)
    \/ trigger_plan(t)
    \/ trigger_plan_raises(t)
    \/ trigger_submit(t, Plans(LiveMaxJobs))
    \/ trigger_write_file_metadata(t)
    \/ trigger_metadata_raises(t)
    \/ feed_trigger_except(t)

derived_rss_feed(t) ==
    \/ feed_trigger_rendering(t)
    \/ feed_is_default(t)
    \/ feed_rss_exists(t)
    \/ feed_read_file_metadata(t)
    \/ feed_write_rss(t)
    \/ feed_serve(t)

FeedNext ==
    \/ \E t \in Requests : derived_rss_feed(t)
    \/ executor
    \/ \E t \in Requests : render_complete_callback(t)

FeedSpec ==
    FeedInit /\ [][FeedNext]_vars

(***************************************************************************)
(* m4btools.render_jobs: list(executor.map(lambda x: x(), jobs)).           *)
(* Executor.map submits every job, then its result iterator takes the      *)
(* results in job order; when a result is an exception the iterator raises *)
(* it and, on its way out, cancels the futures it has not yielded yet.  A   *)
(* future that no worker has started is cancelled and never runs; a        *)
(* running one finishes.  The pool has max_workers threads and serves its  *)
(* queue in submission order.                                              *)
(***************************************************************************)
MapInit ==
    /\ MapIdle
    /\ RendererIdle
    /\ SegIdle
    /\ PlannerIdle

\* The futures a worker thread is running.
running ==
    {i \in DOMAIN fs : fs[i] = "running"}

\* Line 604-608: the pool is created and every job is submitted before the
\* first result is awaited.
render_jobs_submit(n) ==
    /\ map_pc = "idle"
    /\ fs' = [i \in 1..n |-> "pending"]
    /\ next_result' = 1
    /\ map_pc' = "iterating"
    /\ UNCHANGED outside_map

\* A free worker takes the oldest queued job.
worker_start(i) ==
    /\ i \in DOMAIN fs
    /\ fs[i] = "pending"
    /\ \A j \in 1..(i - 1) : fs[j] # "pending"
    /\ Cardinality(running) < max_workers
    /\ fs' = [fs EXCEPT ![i] = "running"]
    /\ UNCHANGED <<map_pc, next_result>>
    /\ UNCHANGED outside_map

\* RenderJob.__call__ returns: the encoder exited with status 0.
worker_done(i) ==
    /\ i \in DOMAIN fs
    /\ fs[i] = "running"
    /\ fs' = [fs EXCEPT ![i] = "done"]
    /\ UNCHANGED <<map_pc, next_result>>
    /\ UNCHANGED outside_map

\* proc.returncode != 0: RenderJob.__call__ raises IOError.
worker_fail(i) ==
    /\ i \in DOMAIN fs
    /\ fs[i] = "running"
    /\ fs' = [fs EXCEPT ![i] = "failed"]
    /\ UNCHANGED <<map_pc, next_result>>
    /\ UNCHANGED outside_map

\* list(...) takes the next result; after the last one render_jobs returns.
result_next ==
    /\ map_pc = "iterating"
    /\ fs[next_result] = "done"
    /\ next_result' = next_result + 1
    /\ map_pc' = IF next_result = Len(fs) THEN "returned" ELSE "iterating"
    /\ UNCHANGED fs
    /\ UNCHANGED outside_map

\* The next result is an exception: the iterator cancels the futures that
\* are still queued and render_jobs raises the IOError to its caller.
result_raise ==
    /\ map_pc = "iterating"
    /\ fs[next_result] = "failed"
    /\ fs' = [i \in DOMAIN fs |->
                IF i > next_result /\ fs[i] = "pending" THEN "cancelled" ELSE fs[i]]
    /\ map_pc' = "raised"
    /\ UNCHANGED next_result
    /\ UNCHANGED outside_map

render_jobs ==
    \/ \E n \in 1..MapJobs : render_jobs_submit(n)
    \/ result_next
    \/ result_raise

worker ==
    \/ \E i \in 1..MapJobs : worker_start(i)
    \/ \E i \in 1..MapJobs : worker_done(i)
    \/ \E i \in 1..MapJobs : worker_fail(i)

MapNext ==
    \/ render_jobs
    \/ worker

MapSpec ==
    MapInit /\ [][MapNext]_vars

(***************************************************************************)
(* segmenter.segment: the dynamic programme over split positions.          *)
(***************************************************************************)
\* The durations a value can have.
Durations ==
    {1, 2}

Costs ==
    0..MaxCost

\* values[j:i]
slice(v, j, i) ==
    SubSeq(v, j + 1, i)

\* The non-empty contiguous groups of v: what segment passes to cost_func.
Slices(v) ==
    {slice(v, q[1], q[2]) :
        q \in {r \in (0..Len(v)) \X (0..Len(v)) : r[1] < r[2]}}

\* Every non-empty input of up to MaxLen values with every cost function on
\* its groups; a cost function is a function of the group's values.
SegInit ==
    /\ values \in UNION {[1..n -> Durations] : n \in 1..MaxLen}
    /\ cost_func \in [Slices(values) -> Costs]
    /\ out_sequence = <<>>
    /\ RendererIdle
    /\ MapIdle
    /\ PlannerIdle

\* previous_split=None
NoSplit ==
    0 - 1

_MemoEntry(score, previous_split) ==
    [score |-> score, previous_split |-> previous_split]

\* Variant of the order of _MemoEntry that compares previous_split only.
MemoEntry_lt_by_split(a, b) ==
    a.previous_split < b.previous_split

\* attrs.frozen(order=True): entries compare as (score, previous_split).
MemoEntry_lt(a, b) ==
    \/ a.score < b.score
    \/ a.score = b.score /\ a.previous_split < b.previous_split

\* min(candidates): the candidates differ in previous_split, so exactly one
\* is below all others.
min(candidates) ==
    CHOOSE c \in candidates : \A d \in candidates : d # c => MemoEntry_lt(c, d)

RECURSIVE memo_table(_, _, _)

\* Line 64-76: one candidate per split position j before i.
candidates_at(v, c, i) ==
    {_MemoEntry(c[slice(v, j, i)] + memo_table(v, c, j).score, j) : j \in 0..(i - 1)}

\* Line 62-80: memo_table[i] after the loop.
memo_table(v, c, i) ==
    IF i = 0 THEN _MemoEntry(0, NoSplit)
             ELSE min(candidates_at(v, c, i))

RECURSIVE collect_breaks(_, _, _)

\* Line 86-92: follow previous_split back from len(values).
collect_breaks(v, c, current_break) ==
    LET next_split == memo_table(v, c, current_break).previous_split
    IN  IF next_split = NoSplit
          THEN <<current_break>>
          ELSE <<current_break>> \o collect_breaks(v, c, next_split)

reverse(s) ==
    [k \in 1..Len(s) |-> s[Len(s) + 1 - k]]

\* Line 97-102: the groups between consecutive breaks.
segment(v, c) ==
    LET breaks == reverse(collect_breaks(v, c, Len(v)))
    IN  [k \in 1..(Len(breaks) - 1) |-> slice(v, breaks[k], breaks[k + 1])]

\* One call of segment on the drawn input.
segment_call ==
    /\ values # <<>>
    /\ out_sequence = <<>>
    /\ out_sequence' = segment(values, cost_func)
    /\ UNCHANGED <<values, cost_func>>
    /\ UNCHANGED outside_seg

SegNext ==
    segment_call

SegSpec ==
    SegInit /\ [][SegNext]_vars

(***************************************************************************)
(* m4btools.RenderJob: classification and dispatch of a job.  A FileSubset *)
(* is [path, start, end]; times are whole numbers of time units and None   *)
(* stands for an unset start or end.                                       *)
(***************************************************************************)
\* Optional[float] = None
None ==
    0 - 1

\* The i-th file of the sorted list the audio loader returns.
Paths ==
    1..MaxFiles

FileSubset(path, start, end) ==
    [path |-> path, start |-> start, end |-> end]

\* The subsets a job can be made of.
FileSubsets ==
    {FileSubset(p, s, e) : p \in Paths, s \in {None, 0, 1}, e \in {None, 2}}

JobInit ==
    /\ file_inputs \in UNION {[1..n -> FileSubsets] : n \in 1..MaxSubsets}
    /\ dispatched = <<>>
    /\ RendererIdle
    /\ MapIdle
    /\ SegIdle
    /\ PlanIdle
    /\ HashIdle
    /\ FeedIdle
    /\ SidecarIdle

\* Variant of is_copy_job that does not look at the subset's end.
RenderJob_is_copy_job_any_end(inputs) ==
    /\ Len(inputs) = 1
    /\ inputs[1].start = None \/ inputs[1].start = 0

\* Line 61-68: RenderJob.is_copy_job
RenderJob_is_copy_job(inputs) ==
    IF Len(inputs) # 1
      THEN FALSE
      ELSE /\ inputs[1].start = None \/ inputs[1].start = 0
           /\ inputs[1].end = None

\* Line 70-89: RenderJob.__call__, as the function it calls and the subsets
\* it passes.
RenderJob_call(inputs) ==
    IF RenderJob_is_copy_job(inputs)
      THEN <<"copyfile", <<inputs[1]>>>>
      ELSE IF \A i \in 2..Len(inputs) : inputs[1].path = inputs[i].path
        THEN LET merged_subset ==
                   IF Len(inputs) > 1
                     THEN [inputs[1] EXCEPT !.end = inputs[Len(inputs)].end]
                     ELSE inputs[1]
             IN  <<"_extract_subset", <<merged_subset>>>>
        ELSE <<"_merge_subsets", inputs>>

\* The executor calls the job.
job_call ==
    /\ file_inputs # <<>>
    /\ dispatched = <<>>
    /\ dispatched' = RenderJob_call(file_inputs)
    /\ UNCHANGED file_inputs
    /\ UNCHANGED outside_job

JobNext ==
    job_call

JobSpec ==
    JobInit /\ [][JobNext]_vars

(***************************************************************************)
(* The probed input files of a planning call.  A FileInfo is [duration,    *)
(* chapters]; a ChapterInfo is [num, start_time, end_time].  Times are     *)
(* whole numbers of eighths of a second.                                   *)
(***************************************************************************)
ChapterInfo(num, start_time, end_time) ==
    [num |-> num, start_time |-> start_time, end_time |-> end_time]

\* ChapterInfo.duration
chapter_duration(chapter) ==
    chapter.end_time - chapter.start_time

\* format_info.duration of the input files.
FileDurations ==
    {4, 6}

\* The embedded chapters a probe can report: one that starts at 0, one that
\* starts inside the file, one that starts after the shorter file ends; in
\* the shorter file the first ends after the file does, in the longer one
\* the last does.
ChapterInfos ==
    {ChapterInfo(0, 0, 5), ChapterInfo(7, 2, 4), ChapterInfo(3, 5, 8)}

\* The chapters of file p, when the files together hold the chapters chs
\* and chapter i is in file owner[i].
chapters_of(chs, owner, p) ==
    LET before == Cardinality({i \in DOMAIN owner : owner[i] < p})
        count == Cardinality({i \in DOMAIN owner : owner[i] = p})
    IN  [k \in 1..count |-> chs[before + k]]

\* Every list of 1..MaxFiles files, every duration of each, every way of
\* placing up to MaxChapters embedded chapters, taken from chapter_infos, in
\* them.
PlanInputsOver(chapter_infos) ==
    /\ \E n \in 1..MaxFiles, t \in 0..MaxChapters :
         /\ fpaths = [i \in 1..n |-> i]
         /\ \E chs \in [1..t -> chapter_infos], d \in [1..n -> FileDurations] :
              \E owner \in {o \in [1..t -> 1..n] :
                               \A i, j \in 1..t : i < j => o[i] <= o[j]} :
                file_infos = [p \in 1..n |->
                                [duration |-> d[p],
                                 chapters |-> chapters_of(chs, owner, p)]]
    /\ probe_json = <<>>
    /\ returned = ""
    /\ out = <<>>
    /\ n_merged = 0
    /\ merge_args = <<>>
    /\ merged = <<>>
    /\ job_pool = <<>>
    /\ last_file = None
    /\ n_planned = 0
    /\ segmented = <<>>
    /\ job_queue = <<>>

PlanInputs ==
    PlanInputsOver(ChapterInfos)

(***************************************************************************)
(* file_probe.get_multipath_chapter_info.                                  *)
(***************************************************************************)
\* Variant of has_usable_chapters that accepts every non-empty chapter list.
has_chapters(file_info) ==
    file_info.chapters # <<>>

\* Line 312-315: the file has chapters and none starts after the file ends.
has_usable_chapters(file_info) ==
    /\ file_info.chapters # <<>>
    /\ ~\E i \in DOMAIN file_info.chapters :
          file_info.chapters[i].start_time > file_info.duration

RECURSIVE keep_chapter_numbers(_, _, _)

\* Variant of renumber_chapters that emits every chapter under its own number.
keep_chapter_numbers(fpath, chapters, acc) ==
    IF chapters = <<>>
      THEN acc
      ELSE keep_chapter_numbers(
               fpath, Tail(chapters),
               [out |-> Append(acc.out, <<fpath, Head(chapters)>>),
                chapter_num |-> Head(chapters).num])

RECURSIVE renumber_chapters(_, _, _)

\* Line 316-322: emit the chapters of one file, numbered on from
\* acc.chapter_num.
renumber_chapters(fpath, chapters, acc) ==
    IF chapters = <<>>
      THEN acc
      ELSE LET chapter == Head(chapters)
               chapter_num == IF acc.chapter_num = None THEN chapter.num
                                                        ELSE acc.chapter_num + 1
           IN  renumber_chapters(
                   fpath, Tail(chapters),
                   [out |-> Append(acc.out,
                                   <<fpath, [chapter EXCEPT !.num = chapter_num]>>),
                    chapter_num |-> chapter_num])

\* Variant of duration_chapter whose chapter ends at 0.
duration_chapter_without_end(fpath, file_info, acc) ==
    LET chapter_num == IF acc.chapter_num = None THEN 1 ELSE acc.chapter_num + 1
    IN  [out |-> Append(acc.out, <<fpath, ChapterInfo(chapter_num, 0, 0)>>),
         chapter_num |-> chapter_num]

\* Line 324-350: one chapter that spans the file.
duration_chapter(fpath, file_info, acc) ==
    LET chapter_num == IF acc.chapter_num = None THEN 1 ELSE acc.chapter_num + 1
    IN  [out |-> Append(acc.out,
                        <<fpath, ChapterInfo(chapter_num, 0, file_info.duration)>>),
         chapter_num |-> chapter_num]

RECURSIVE resolve_files(_, _, _, _)

\* Line 305-350: the loop over fpaths.
resolve_files(paths, infos, fallback, acc) ==
    IF paths = <<>>
      THEN acc
      ELSE LET fpath == Head(paths)
               file_info == infos[fpath]
               next == IF has_usable_chapters(file_info)
                         THEN renumber_chapters(fpath, file_info.chapters, acc)
                         ELSE IF fallback
                           THEN duration_chapter(fpath, file_info, acc)
                           ELSE acc
           IN  resolve_files(Tail(paths), infos, fallback, next)

\* Line 294-352
get_multipath_chapter_info(paths, fallback, infos) ==
    resolve_files(paths, infos, fallback, [out |-> <<>>, chapter_num |-> None]).out

ChapterInit ==
    /\ PlanInputs
    /\ fall_back_to_durations \in BOOLEAN
    /\ target = 0
    /\ RendererIdle
    /\ MapIdle
    /\ SegIdle
    /\ JobIdle
    /\ HashIdle
    /\ FeedIdle
    /\ SidecarIdle

resolve_chapters ==
    /\ fpaths # <<>>
    /\ returned = ""
    /\ out' = get_multipath_chapter_info(fpaths, fall_back_to_durations, file_infos)
    /\ returned' = "get_multipath_chapter_info"
    /\ UNCHANGED <<plan_input_vars, merge_vars, split_vars, segments_vars>>
    /\ UNCHANGED outside_plan

ChapterNext ==
    resolve_chapters

ChapterSpec ==
    ChapterInit /\ [][ChapterNext]_vars

(***************************************************************************)
(* m4btools._merge_file_infos, folded over the FileInfos of the input      *)
(* files as functools.reduce does (line 193-195, 555-557).                 *)
(***************************************************************************)
FileInfo(duration, chapters) ==
    [duration |-> duration, chapters |-> chapters]

\* Line 120-127: the chapters of f2, moved by left_duration.
shifted_chapters(chapters, left_duration) ==
    [k \in 1..Len(chapters) |->
        [chapters[k] EXCEPT !.start_time = chapters[k].start_time + left_duration,
                            !.end_time = chapters[k].end_time + left_duration]]

\* Variant of _merge_file_infos that moves f2's chapters by f2's duration.
_merge_file_infos_shift_by_right(f1, f2) ==
    FileInfo(f1.duration + f2.duration,
             f1.chapters \o shifted_chapters(f2.chapters, f2.duration))

\* Line 92-131
_merge_file_infos(f1, f2) ==
    LET new_chapters ==
          IF /\ f2.chapters # <<>>
             /\ f1.chapters # <<>>
             /\ f2.chapters[1].start_time > 0
            THEN [f1.chapters EXCEPT ![Len(f1.chapters)].end_time =
                     f1.chapters[Len(f1.chapters)].end_time
                        + f2.chapters[1].start_time]
            ELSE f1.chapters
    IN  FileInfo(f1.duration + f2.duration,
                 new_chapters \o shifted_chapters(f2.chapters, f1.duration))

MergeInit ==
    /\ PlanInputs
    /\ fall_back_to_durations = FALSE
    /\ target = 0
    /\ RendererIdle
    /\ MapIdle
    /\ SegIdle
    /\ JobIdle
    /\ HashIdle
    /\ FeedIdle
    /\ SidecarIdle

\* reduce: the first FileInfo is the initial value.
reduce_first ==
    /\ fpaths # <<>>
    /\ n_merged = 0
    /\ merged' = file_infos[fpaths[1]]
    /\ n_merged' = 1
    /\ UNCHANGED <<merge_args, plan_input_vars, returned, out, split_vars, segments_vars>>
    /\ UNCHANGED outside_plan

\* reduce: merge the next FileInfo into the value so far.
reduce_next ==
    /\ 0 < n_merged
    /\ n_merged < Len(fpaths)
    /\ merge_args' = <<merged, file_infos[fpaths[n_merged + 1]]>>
    /\ merged' = _merge_file_infos(merged, file_infos[fpaths[n_merged + 1]])
    /\ n_merged' = n_merged + 1
    /\ UNCHANGED <<plan_input_vars, returned, out, split_vars, segments_vars>>
    /\ UNCHANGED outside_plan

MergeNext ==
    \/ reduce_first
    \/ reduce_next

MergeSpec ==
    MergeInit /\ [][MergeNext]_vars

(***************************************************************************)
(* m4btools.calculate_chapter_splits.  A RenderJob is [file_inputs,        *)
(* out_path, out_file_info]; the output file of a chapter is named by the  *)
(* chapter's number (line 404).                                            *)
(***************************************************************************)
\* Line 439, 544: 0.25 s, in eighths of a second.
tolerance ==
    2

abs(x) ==
    IF x < 0 THEN 0 - x ELSE x

RenderJob(inputs, out_path, out_file_info) ==
    [file_inputs |-> inputs, out_path |-> out_path,
     out_file_info |-> out_file_info]

\* Variant of extend_job that leaves the synthesized chapter as it was.
extend_job_keep_chapter(old_job, fpath, chapter) ==
    RenderJob(Append(old_job.file_inputs,
                     FileSubset(fpath, None, chapter.start_time)),
              old_job.out_path,
              old_job.out_file_info)

\* Line 411-431: the job that replaces old_job when the chapter continues
\* into the beginning of fpath, up to the start of fpath's first chapter.
extend_job(old_job, fpath, chapter) ==
    LET old_file_info == old_job.out_file_info
        old_chapter == old_file_info.chapters[1]
    IN  RenderJob(Append(old_job.file_inputs,
                         FileSubset(fpath, None, chapter.start_time)),
                  old_job.out_path,
                  [old_file_info EXCEPT !.chapters =
                     <<[old_chapter EXCEPT !.end_time =
                          old_chapter.end_time + chapter.start_time]>>])

\* Line 433-463: the job of one chapter.
chapter_job(fpath, chapter, infos) ==
    LET end_time == IF abs(chapter.end_time - infos[fpath].duration) < tolerance
                      THEN None
                      ELSE chapter.end_time
    IN  RenderJob(<<FileSubset(fpath, chapter.start_time, end_time)>>,
                  chapter.num,
                  FileInfo(chapter_duration(chapter),
                           <<ChapterInfo(chapter.num, 0,
                                         chapter_duration(chapter))>>))

\* Line 407: the chapter is the first of a new file and starts inside it.
continues_last_chapter(pool, last, fpath, chapter) ==
    /\ last # fpath
    /\ chapter.start_time > 0
    /\ pool # <<>>

SplitInit ==
    /\ PlanInputs
    /\ fall_back_to_durations = FALSE
    /\ target = 0
    /\ RendererIdle
    /\ MapIdle
    /\ SegIdle
    /\ JobIdle
    /\ HashIdle
    /\ FeedIdle
    /\ SidecarIdle

\* Line 394-402: resolve the chapters; max() of no chapter raises.
split_resolve ==
    /\ fpaths # <<>>
    /\ returned = ""
    /\ out = <<>>
    /\ n_planned = 0
    /\ LET chapter_info ==
             get_multipath_chapter_info(fpaths, fall_back_to_durations, file_infos)
       IN  /\ out' = chapter_info
           /\ returned' = IF chapter_info = <<>> THEN "ValueError" ELSE ""
    /\ n_planned' = 0
    /\ UNCHANGED <<job_pool, last_file, plan_input_vars, merge_vars, segments_vars>>
    /\ UNCHANGED outside_plan

\* Line 403-465: one iteration of the loop.
split_chapter ==
    /\ returned = ""
    /\ n_planned < Len(out)
    /\ LET fpath == out[n_planned + 1][1]
           chapter == out[n_planned + 1][2]
           pool == IF continues_last_chapter(job_pool, last_file, fpath, chapter)
                     THEN [job_pool EXCEPT ![Len(job_pool)] =
                              extend_job(job_pool[Len(job_pool)], fpath, chapter)]
                     ELSE job_pool
       IN  /\ job_pool' = Append(pool, chapter_job(fpath, chapter, file_infos))
           /\ last_file' = fpath
    /\ n_planned' = n_planned + 1
    /\ UNCHANGED <<returned, out, plan_input_vars, merge_vars, segments_vars>>
    /\ UNCHANGED outside_plan

\* Line 467
split_return ==
    /\ returned = ""
    /\ out # <<>>
    /\ n_planned = Len(out)
    /\ returned' = "calculate_chapter_splits"
    /\ UNCHANGED <<out, split_vars, plan_input_vars, merge_vars, segments_vars>>
    /\ UNCHANGED outside_plan

calculate_chapter_splits ==
    \/ split_resolve
    \/ split_chapter
    \/ split_return

SplitNext ==
    calculate_chapter_splits

SplitSpec ==
    SplitInit /\ [][SplitNext]_vars

\* Chapters whose end is not after their start: an empty one and one that
\* ends before it starts.
DegenerateChapterInfos ==
    {ChapterInfo(1, 3, 3), ChapterInfo(2, 4, 3)}

\* calculate_chapter_splits on files whose embedded chapters can be
\* degenerate.
DegenerateInit ==
    /\ PlanInputsOver({ChapterInfo(0, 0, 5), ChapterInfo(7, 2, 4)}
                         \cup DegenerateChapterInfos)
    /\ fall_back_to_durations = FALSE
    /\ target = 0
    /\ RendererIdle
    /\ MapIdle
    /\ SegIdle
    /\ JobIdle
    /\ HashIdle
    /\ FeedIdle
    /\ SidecarIdle

DegenerateSpec ==
    DegenerateInit /\ [][SplitNext]_vars

(***************************************************************************)
(* m4btools.calculate_segments.  A SegmentableFiles is [fpath, duration,   *)
(* chapter, file_info]; the output file of a group is named by the         *)
(* group's index (line 538).                                               *)
(***************************************************************************)
\* The targets of the cost function: one that no chapter is shorter than,
\* one that some chapters only reach together.
Targets ==
    {2, 6}

SegmentableFiles(fpath, duration, chapter, file_info) ==
    [fpath |-> fpath, duration |-> duration, chapter |-> chapter,
     file_info |-> file_info]

\* sum(map(float, values)); SegmentableFiles.__float__ is the duration.
RECURSIVE sum_float(_)
sum_float(group) ==
    IF group = <<>> THEN 0 ELSE group[1].duration + sum_float(Tail(group))

\* segmenter.asymmetric_cost(t, pos_exponent=1, neg_exponent=2) on a group.
asymmetric_cost(t, group) ==
    LET s == sum_float(group) - t
    IN  IF s < 0 THEN abs(s) * abs(s) ELSE s

\* Line 507-524: one segmentable per resolved chapter, with a FileInfo
\* whose duration is the chapter's and whose one chapter starts at 0.
segmentables_of(chapter_infos, infos) ==
    [k \in 1..Len(chapter_infos) |->
        LET chapter == chapter_infos[k][2]
        IN  SegmentableFiles(chapter_infos[k][1],
                             chapter_duration(chapter),
                             chapter,
                             FileInfo(chapter_duration(chapter),
                                      <<[chapter EXCEPT
                                           !.start_time = 0,
                                           !.end_time = chapter_duration(chapter)]>>))]

\* Variant of single_subset that always trims both ends.
single_subset_trimmed(element) ==
    FileSubset(element.fpath, element.chapter.start_time, element.chapter.end_time)

\* Line 540-548: the subset of a group of one chapter.
single_subset(element) ==
    LET duration == element.file_info.duration
        chapter == element.chapter
    IN  IF duration > chapter_duration(chapter)
          THEN FileSubset(element.fpath, chapter.start_time, chapter.end_time)
          ELSE FileSubset(element.fpath, chapter.start_time, None)

\* Line 560-572: the subset of one chapter of a larger group.
element_subset(element) ==
    LET duration == element.file_info.duration
        end_time == IF abs(element.chapter.end_time - duration) < tolerance
                      THEN None
                      ELSE element.chapter.end_time
    IN  FileSubset(element.fpath, element.chapter.start_time, end_time)

\* Line 555-557: functools.reduce(_merge_file_infos, ...) over a group.
RECURSIVE reduce_merge_file_infos(_, _)
reduce_merge_file_infos(acc, group) ==
    IF group = <<>>
      THEN acc
      ELSE reduce_merge_file_infos(_merge_file_infos(acc, group[1].file_info),
                                   Tail(group))

\* Line 537-576: the job of group i (counted from 0).
segment_job(i, group) ==
    IF Len(group) = 1
      THEN RenderJob(<<single_subset(group[1])>>, i, group[1].file_info)
      ELSE RenderJob([k \in 1..Len(group) |-> element_subset(group[k])],
                     i,
                     reduce_merge_file_infos(group[1].file_info, Tail(group)))

SegmentsInit ==
    /\ PlanInputs
    /\ fall_back_to_durations = TRUE
    /\ target \in Targets
    /\ RendererIdle
    /\ MapIdle
    /\ SegIdle
    /\ JobIdle
    /\ HashIdle
    /\ FeedIdle
    /\ SidecarIdle

\* Line 488-578
calculate_segments ==
    /\ fpaths # <<>>
    /\ returned = ""
    /\ LET chapter_infos ==
             get_multipath_chapter_info(fpaths, fall_back_to_durations, file_infos)
           segmentables == segmentables_of(chapter_infos, file_infos)
           groups == segment(segmentables,
                             [g \in Slices(segmentables) |->
                                 asymmetric_cost(target, g)])
       IN  /\ out' = chapter_infos
           /\ segmented' = groups
           /\ job_queue' = [i \in 1..Len(groups) |-> segment_job(i - 1, groups[i])]
    /\ returned' = "calculate_segments"
    /\ UNCHANGED <<target, plan_input_vars, merge_vars, split_vars>>
    /\ UNCHANGED outside_plan

SegmentsNext ==
    calculate_segments

SegmentsSpec ==
    SegmentsInit /\ [][SegmentsNext]_vars

(***************************************************************************)
(* file_probe.OverdriveMediaMarker.from_xml and FileInfo.from_json.  The   *)
(* prober's report of a file is [duration, chapters, markers]; markers is  *)
(* the parsed XML of the "OverDrive MediaMarkers" tag, [root, children],   *)
(* or NoTag; a child is [name, time] and a time is the sequence of its     *)
(* colon-separated components.  A function that can raise returns         *)
(* [raised, value]: the name of the exception, or "" and the value.        *)
(***************************************************************************)
MaxMarkers ==
    2

NoTag ==
    <<>>

\* Time texts: "0", "0:2" and one with four components.
MarkerTimes ==
    {<<0>>, <<0, 2>>, <<0, 0, 0, 3>>}

MarkerTags ==
    {[root |-> r, children |-> c] :
        r \in {"Markers", "Marker"},
        c \in UNION {[1..n -> [name : {"a"}, time : MarkerTimes]] :
                        n \in 0..MaxMarkers}}

ProbeReports ==
    [duration : FileDurations,
     chapters : {<<>>, <<ChapterInfo(0, 0, 5)>>},
     markers : {NoTag} \cup MarkerTags]

Raised(exception) ==
    [raised |-> exception, value |-> <<>>]

Returned(value) ==
    [raised |-> "", value |-> value]

\* Line 24-34: seconds, minutes, hours from the right; more than three
\* components raise.
_parse_time(s) ==
    IF Len(s) > 3
      THEN Raised("ValueError")
      ELSE Returned(s[Len(s)]
                      + (IF Len(s) > 1 THEN 60 * s[Len(s) - 1] ELSE 0)
                      + (IF Len(s) > 2 THEN 3600 * s[Len(s) - 2] ELSE 0))

OverdriveMediaMarker(time, name) ==
    [time |-> time, name |-> name]

\* Line 66-86
from_xml(xml) ==
    IF xml.root # "Markers"
      THEN Raised("ValueError")
      ELSE IF \E k \in DOMAIN xml.children :
                 _parse_time(xml.children[k].time).raised # ""
             THEN Raised("ValueError")
             ELSE Returned([k \in DOMAIN xml.children |->
                      OverdriveMediaMarker(_parse_time(xml.children[k].time).value,
                                           xml.children[k].name)])

\* sorted(omm_tags): markers are ordered by their time.
RECURSIVE sorted_markers(_)
sorted_markers(markers) ==
    IF markers = <<>>
      THEN <<>>
      ELSE LET i == CHOOSE i \in 1..Len(markers) :
                       \A j \in 1..Len(markers) : markers[i].time <= markers[j].time
           IN  <<markers[i]>>
                 \o sorted_markers([k \in 1..(Len(markers) - 1) |->
                                      IF k < i THEN markers[k] ELSE markers[k + 1]])

\* Line 199-214: one chapter per marker, numbered from 1, from the marker's
\* time to the next marker's, the last one to the file's duration.
marker_chapters(markers, duration) ==
    LET omm_tags == sorted_markers(markers)
    IN  FileInfo(duration,
                 [k \in 1..Len(omm_tags) |->
                    ChapterInfo(k, omm_tags[k].time,
                                IF k < Len(omm_tags)
                                  THEN omm_tags[k + 1].time
                                  ELSE duration)])

\* Line 186-216: the chapters the prober reports, else those between the
\* markers of the legacy tag, the last one ending at the file's duration.
FileInfo_from_json(json_dict) ==
    IF json_dict.chapters # <<>>
      THEN Returned(FileInfo(json_dict.duration, json_dict.chapters))
      ELSE IF json_dict.markers = NoTag
             THEN Returned(FileInfo(json_dict.duration, <<>>))
             ELSE IF from_xml(json_dict.markers).raised # ""
                    THEN Raised(from_xml(json_dict.markers).raised)
                    ELSE Returned(marker_chapters(from_xml(json_dict.markers).value,
                                                  json_dict.duration))

\* One file, no FileInfo passed in, fall_back_to_durations=True.
MarkerInit ==
    /\ fpaths = <<1>>
    /\ file_infos = <<>>
    /\ fall_back_to_durations = TRUE
    /\ probe_json \in [{1} -> ProbeReports]
    /\ returned = ""
    /\ out = <<>>
    /\ n_merged = 0
    /\ merge_args = <<>>
    /\ merged = <<>>
    /\ job_pool = <<>>
    /\ last_file = None
    /\ n_planned = 0
    /\ target = 0
    /\ segmented = <<>>
    /\ job_queue = <<>>
    /\ RendererIdle
    /\ MapIdle
    /\ SegIdle
    /\ JobIdle
    /\ HashIdle
    /\ FeedIdle
    /\ SidecarIdle

\* file_probe.py line 305-352 with line 309: the file is probed by
\* FileInfo.from_file, whose exception ends the call.
resolve_probed ==
    /\ probe_json # <<>>
    /\ returned = ""
    /\ LET probed == [p \in DOMAIN probe_json |-> FileInfo_from_json(probe_json[p])]
       IN  IF \E p \in DOMAIN probed : probed[p].raised # ""
             THEN /\ returned' = "ValueError"
                  /\ UNCHANGED <<out, file_infos>>
             ELSE /\ returned' = "get_multipath_chapter_info"
                  /\ file_infos' = [p \in DOMAIN probed |-> probed[p].value]
                  /\ out' = get_multipath_chapter_info(
                               fpaths, fall_back_to_durations,
                               [p \in DOMAIN probed |-> probed[p].value])
    /\ UNCHANGED <<fpaths, fall_back_to_durations, probe_json>>
    /\ UNCHANGED <<merge_vars, split_vars, segments_vars>>
    /\ UNCHANGED outside_plan

MarkerNext ==
    resolve_probed

MarkerSpec ==
    MarkerInit /\ [][MarkerNext]_vars

(***************************************************************************)
(* hash_utils.hash_random and media_renderer.Renderer.make_hash.  A file   *)
(* is the sequence of its blocks, a block is 0 or 1; a digest is the       *)
(* number that has the hashed data as its digits, so that different data   *)
(* have different digests; make_hash's hexdigest is the sequence of the    *)
(* tuples it feeds to the hash object.  job.subsets is the job's list of   *)
(* FileSubsets, RenderJob.file_inputs in m4btools.                         *)
(***************************************************************************)
\* hash_utils.py line 74: hash_amt // block_size, 256 blocks scaled to 2.
num_used_blocks ==
    2

\* A file shorter than hash_amt and a longer one.
Contents ==
    {<<1>>, <<0, 1, 1>>}

Seeds ==
    {0, 1}

\* hash_obj.update(...) over the data, then digest().hex()
RECURSIVE digest_hex(_, _)
digest_hex(data, acc) ==
    IF data = <<>>
      THEN acc
      ELSE digest_hex(Tail(data), acc * 3 + data[1] + 1)

\* Line 75: sorted(rng.sample(range(num_blocks), k)) with rng seeded by
\* hashseed: k distinct blocks that the seed and the range determine, here
\* the k blocks that follow block hashseed % num_blocks, wrapping around.
RECURSIVE sorted_sample(_)
sorted_sample(picked) ==
    IF picked = {}
      THEN <<>>
      ELSE LET first == CHOOSE i \in picked : \A j \in picked : i <= j
           IN  <<first>> \o sorted_sample(picked \ {first})

rng_sample(hashseed, num_blocks, k) ==
    sorted_sample({(hashseed + j) % num_blocks : j \in 0..(k - 1)})

\* Line 23-83
hash_random(blocks, hashseed) ==
    LET num_blocks == Len(blocks)
        file_sample == IF num_blocks < num_used_blocks
                         THEN [i \in 1..num_blocks |-> i - 1]
                         ELSE rng_sample(hashseed, num_blocks, num_used_blocks)
    IN  digest_hex([i \in 1..Len(file_sample) |-> blocks[file_sample[i] + 1]], 0)

\* Variant of old_hash_of that hashes the whole file when no hash is stored.
old_hash_of_whole_file(file, e, d) ==
    IF e.file_hashes # <<>> /\ file \in DOMAIN e.file_hashes
      THEN e.file_hashes[file]
      ELSE digest_hex(d[file], 0)

\* media_renderer.py line 242-247: the stored hash of the file, else the
\* sampled one.
old_hash_of(file, e, d) ==
    IF e.file_hashes # <<>> /\ file \in DOMAIN e.file_hashes
      THEN e.file_hashes[file]
      ELSE hash_random(d[file], e.hashseed)

\* The order of the tuples (old_hash, out_path, new_duration).
tuple_le(a, b) ==
    \/ a[1] < b[1]
    \/ a[1] = b[1] /\ a[2] < b[2]
    \/ a[1] = b[1] /\ a[2] = b[2] /\ a[3] <= b[3]

\* sorted(old_hashes)
RECURSIVE sorted(_)
sorted(tuples) ==
    IF tuples = <<>>
      THEN <<>>
      ELSE LET i == CHOOSE i \in 1..Len(tuples) :
                       \A j \in 1..Len(tuples) : tuple_le(tuples[i], tuples[j])
           IN  <<tuples[i]>>
                 \o sorted([k \in 1..(Len(tuples) - 1) |->
                              IF k < i THEN tuples[k] ELSE tuples[k + 1]])

\* Line 229-261
make_hash(j, e, d) ==
    LET new_duration == IF j.out_file_info.duration = None
                          THEN 0
                          ELSE j.out_file_info.duration
        old_hashes == [k \in 1..Len(j.file_inputs) |->
                         <<old_hash_of(j.file_inputs[k].path, e, d),
                           j.out_path, new_duration>>]
    IN  sorted(old_hashes)

\* The jobs that are hashed: up to MaxSubsets subsets of the files on
\* disk, with or without a known duration of the output.
HashedJobs ==
    {RenderJob(inputs, 0, FileInfo(d, <<>>)) :
        inputs \in UNION {[1..n -> {FileSubset(p, None, None) : p \in Paths}] :
                            n \in 1..MaxSubsets},
        d \in {None, 3}}

\* The entry is new: it has its hash seed and no stored hashes yet.  The
\* jobs were submitted before make_hash is first called (line 158, 169).
HashInit ==
    /\ disk \in [Paths -> Contents]
    /\ \E hashseed \in Seeds :
         entry = [hashseed |-> hashseed, file_hashes |-> <<>>]
    /\ hash_job \in HashedJobs
    /\ render_phase = "submitted"
    /\ kept_hash = <<>>
    /\ new_hash = <<>>
    /\ RendererIdle
    /\ MapIdle
    /\ SegIdle
    /\ JobIdle
    /\ PlanIdle
    /\ FeedIdle
    /\ SidecarIdle

\* object_handler.py line 83-109
updated_hashes(e, d) ==
    LET new_hashes == [file \in Paths |-> hash_random(d[file], e.hashseed)]
        hash_mismatch ==
            \/ e.file_hashes = <<>>
            \/ \E file \in Paths : new_hashes[file] # e.file_hashes[file]
    IN  IF hash_mismatch THEN new_hashes ELSE e.file_hashes

\* object_handler.py line 111-142: the updater stores the files' hashes.
updated_metadata ==
    /\ entry # <<>>
    /\ entry' = [entry EXCEPT !.file_hashes = updated_hashes(entry, disk)]
    /\ UNCHANGED <<disk, hash_job, render_phase, kept_hash, new_hash>>
    /\ UNCHANGED outside_hash

\* The executor starts the job.
hash_job_start ==
    /\ render_phase = "submitted"
    /\ render_phase' = "running"
    /\ UNCHANGED <<disk, entry, hash_job, kept_hash, new_hash>>
    /\ UNCHANGED outside_hash

\* The job has written its output file.
hash_job_done ==
    /\ render_phase = "running"
    /\ render_phase' = "done"
    /\ UNCHANGED <<disk, entry, hash_job, kept_hash, new_hash>>
    /\ UNCHANGED outside_hash

\* One call of make_hash on the job; the call is remembered as the last
\* one, and any one earlier call is kept to compare it with.
make_hash_call ==
    /\ hash_job # <<>>
    /\ LET call == [hexdigest |-> make_hash(hash_job, entry, disk),
                    phase |-> render_phase,
                    stored |-> entry.file_hashes # <<>>]
       IN  /\ new_hash' = call
           /\ kept_hash' \in {kept_hash, call}
    /\ UNCHANGED <<disk, entry, hash_job, render_phase>>
    /\ UNCHANGED outside_hash

HashNext ==
    \/ updated_metadata
    \/ hash_job_start
    \/ hash_job_done
    \/ make_hash_call

HashSpec ==
    HashInit /\ [][HashNext]_vars

(***************************************************************************)
(* The sidecar: Renderer.write_file_metadata stores the mapping from the   *)
(* output files to their (FileInfo, content hash) as JSON, and             *)
(* Renderer.read_file_metadata reads it back.  Here a time is a whole      *)
(* number of thirds of 0.0001 s, so that the four decimals of the stored   *)
(* chapter times are coarser than the times; a stored time is the number   *)
(* of its ten-thousandths.  A value that can be missing is a sequence of   *)
(* no or one element, a dict is the set of its items.                      *)
(***************************************************************************)
MaxSidecarChapters ==
    2

SidecarTimes ==
    {<<0, 3>>, <<0, 4>>}

SidecarTitles ==
    {<<>>, <<"Intro">>}

SidecarTags ==
    {{}, {<<"comment", "c">>}}

SidecarHashes ==
    {"h1", "h2"}

\* file_probe.py line 99-104: a ChapterInfo with its title and tags.
TitledChapterInfo(num, start_time, end_time, title, tags) ==
    [num |-> num, start_time |-> start_time, end_time |-> end_time,
     title |-> title, tags |-> tags]

\* The chapter lists of the FileInfos of planned jobs: one chapter or more,
\* numbered in order.
SidecarChapterLists ==
    UNION {{[i \in 1..n |-> TitledChapterInfo(i, times[i][1], times[i][2],
                                              titles[i], tags[i])] :
               times \in [1..n -> SidecarTimes],
               titles \in [1..n -> SidecarTitles],
               tags \in [1..n -> SidecarTags]} :
           n \in 1..MaxSidecarChapters}

\* What one output file is mapped to: (FileInfo, content hash).
SidecarEntries ==
    {<<FileInfo(duration, chapters), file_hash>> :
        duration \in FileDurations,
        chapters \in SidecarChapterLists,
        file_hash \in SidecarHashes}

\* f"{x:0.4f}": the nearest number of ten-thousandths.
format_0_4f(x) ==
    (x + 1) \div 3

\* float() of a stored time.
float_of(text) ==
    text * 3

\* os.fspath of a relative path, and pathlib.Path of that string.
fspath(path) ==
    <<"str", path>>

Path_of(text) ==
    text[2]

\* file_probe.py line 110-121: ChapterInfo.to_json
ChapterInfo_to_json(chapter) ==
    [id |-> chapter.num,
     start_time |-> format_0_4f(chapter.start_time),
     end_time |-> format_0_4f(chapter.end_time),
     tags |-> IF chapter.tags # {} THEN <<chapter.tags>> ELSE <<>>]

\* file_probe.py line 123-138: ChapterInfo.from_json
ChapterInfo_from_json(chapter) ==
    LET tags == IF chapter.tags # <<>> THEN chapter.tags[1] ELSE {}
        titles == {item \in tags : item[1] = "title"}
        title == IF titles = {} THEN <<>> ELSE <<(CHOOSE item \in titles : TRUE)[2]>>
    IN  TitledChapterInfo(chapter.id,
                          float_of(chapter.start_time),
                          float_of(chapter.end_time),
                          title,
                          IF title # <<>> THEN tags \ titles ELSE tags)

\* file_probe.py line 218-226 and 152-153: FileInfo.to_json
FileInfo_to_json(file_info) ==
    [format |-> [duration |-> file_info.duration],
     chapters |-> [i \in 1..Len(file_info.chapters) |->
                      ChapterInfo_to_json(file_info.chapters[i])]]

\* file_probe.py line 186-216 and 155-180, for a format without the legacy
\* marker tag: FileInfo.from_json
FileInfo_from_sidecar(json_dict) ==
    FileInfo(json_dict.format.duration,
             IF json_dict.chapters # <<>>
               THEN [i \in 1..Len(json_dict.chapters) |->
                        ChapterInfo_from_json(json_dict.chapters[i])]
               ELSE <<>>)

\* The items of a mapping in the order of its keys.
RECURSIVE items(_, _)
items(mapping, keys) ==
    IF keys = {}
      THEN <<>>
      ELSE LET first == CHOOSE k \in keys : \A other \in keys : k <= other
           IN  <<<<first, mapping[first]>>>> \o items(mapping, keys \ {first})

SidecarInit ==
    /\ metadata_in \in UNION {[keys -> SidecarEntries] : keys \in SUBSET Paths \ {{}}}
    /\ json_obj = <<>>
    /\ metadata_out = <<>>
    /\ RendererIdle
    /\ MapIdle
    /\ SegIdle
    /\ JobIdle
    /\ PlanIdle
    /\ HashIdle
    /\ FeedIdle

\* media_renderer.py line 184-199
write_file_metadata ==
    /\ json_obj = <<>>
    /\ LET file_infos_items == items(metadata_in, DOMAIN metadata_in)
       IN  json_obj' = [i \in 1..Len(file_infos_items) |->
                          [file_path |-> fspath(file_infos_items[i][1]),
                           file_info |-> FileInfo_to_json(file_infos_items[i][2][1]),
                           file_hash |-> file_infos_items[i][2][2]]]
    /\ UNCHANGED <<metadata_in, metadata_out>>
    /\ UNCHANGED outside_sidecar

\* media_renderer.py line 201-215
read_file_metadata ==
    /\ json_obj # <<>>
    /\ metadata_out = <<>>
    /\ metadata_out' =
         [file_path \in {Path_of(json_obj[i].file_path) : i \in DOMAIN json_obj} |->
            LET data == json_obj[CHOOSE i \in DOMAIN json_obj :
                                    Path_of(json_obj[i].file_path) = file_path]
            IN  <<FileInfo_from_sidecar(data.file_info), data.file_hash>>]
    /\ UNCHANGED <<metadata_in, json_obj>>
    /\ UNCHANGED outside_sidecar

SidecarNext ==
    \/ write_file_metadata
    \/ read_file_metadata

SidecarSpec ==
    SidecarInit /\ [][SidecarNext]_vars

(***************************************************************************)
(* Properties of the orchestrator.                                         *)
(***************************************************************************)
\* Batch t has a job that is queued or running.
batch_rendering(t) ==
    \E i \in JobIds : job[t][i] \in JobKinds

\* C1: whatever the interleaving of trigger calls on the key, at most one
\* batch of render jobs of the key is queued or running at any time.
OneBatchPerKey ==
    \A t, u \in Requests : batch_rendering(t) /\ batch_rendering(u) => t = u

\* C2: every admitted key is eventually released, whichever way
\* trigger_rendering and the callback leave (planning raises, the sidecar
\* write raises, all jobs succeed, some job fails).
AdmittedKeyIsReleased ==
    (media_path \in ACTIVE_JOBS) ~> (media_path \notin ACTIVE_JOBS)

\* A batch failed, its callback released the key and nothing holds it.
ReleasedAfterFailure ==
    /\ media_path \notin ACTIVE_JOBS
    /\ cb[1] = "done_failed"
    /\ \A t \in Requests : pc[t] \in {"start", "done"}

\* C3: the sidecar of a batch is written before any of its jobs is
\* submitted: no request has submitted jobs while its sidecar write is
\* still ahead of it.
SidecarBeforeSubmission ==
    \A t \in Requests : rendering_futures(t) # {} => pc[t] # "meta"

\* C4: when the completion marker is present, the sidecar is present and
\* describes the jobs of the batch whose completion the marker records.
MarkerImpliesSidecar ==
    render_complete # 0 => file_metadata = render_complete

\* C5: the completion marker is never present while a job of the key is
\* queued or running.
MarkerAfterAllJobs ==
    render_complete # 0 => \A t \in Requests : ~batch_rendering(t)

\* C6: a submit step either submits a batch with a job that is not a copy,
\* or (every planned job is a copy) writes .default, submits nothing and
\* starts the callback with no future to wait for, which releases the key;
\* the callback of a batch is started before trigger_rendering goes on.
CopyBatchIsDefault ==
    /\ [][\A t \in Requests :
            (pc[t] = "submit" /\ pc'[t] = "meta") =>
               \/ \E i \in JobIds : job'[t][i] = "encode"
               \/ /\ default'
                  /\ job' = job
                  /\ cb'[t] = "wait"]_vars
    /\ [](\A t \in Requests : pc[t] = "meta" => cb[t] # "none")
    /\ [][\A t \in Requests :
            (cb[t] = "release" /\ cb'[t] # "release") =>
               (cb'[t] = "done" /\ media_path \notin ACTIVE_JOBS')]_vars

\* The only request so far planned copies only: .default is written, no job
\* was submitted, the callback has run and the key is released.
CopyBatchReleased ==
    /\ default
    /\ cb[1] = "done"
    /\ \A t \in Requests : t # 1 => pc[t] = "start"
    /\ media_path \notin ACTIVE_JOBS

FailedBatchReleasesWithoutMarker ==
    /\ [][\A t \in Requests :
            /\ (cb[t] = "wait" /\ cb'[t] # "wait" /\ exceptions(t) # {}) =>
                  (cb'[t] = "failed" /\ UNCHANGED <<ACTIVE_JOBS, dir_vars>>)
            /\ (cb[t] = "failed" /\ cb'[t] # "failed") =>
                  /\ cb'[t] = "done_failed"
                  /\ media_path \notin ACTIVE_JOBS'
                  /\ UNCHANGED dir_vars]_vars
    /\ [](\A t \in Requests : cb[t] \in {"failed", "done_failed"} => render_complete # t)

\* The first batch failed and was released; a later trigger was admitted
\* and its batch is rendering.
RenderAgainAfterFailure ==
    /\ cb[1] = "done_failed"
    /\ cb[2] = "wait"
    /\ batch_rendering(2)

(***************************************************************************)
(* Properties of render_jobs.                                              *)
(***************************************************************************)
\* Request t takes the remove of its except clause, or the callback of
\* batch t takes the remove of its finally clause.
removes_key(t) ==
    \/ pc[t] = "except" /\ pc'[t] # "except"
    \/ cb[t] \in {"release", "failed"} /\ cb'[t] \notin {"release", "failed"}

\* C26: a key is removed from the in-flight set once per admission: every
\* remove, in the except clause of trigger_rendering and in the finally
\* clause of the callback, finds the key in the set.
KeyRemovedOncePerAdmission ==
    [][\A t \in Requests : removes_key(t) => media_path \in ACTIVE_JOBS]_vars

\* C25: the cached feed document is invalidated whenever the completion
\* marker is written: while .render_complete is present, the directory
\* holds no feed document that was generated while a job of the key was
\* still pending.
CachedFeedIsNeverStale ==
    is_render_complete => ~(rss_file /\ rss_early)

\* C27: after trigger_rendering has returned for a key that is not DEFAULT,
\* the sidecar exists when the feed generator reads it, also for a caller
\* whose trigger_rendering returned at once because the key is in flight.
SidecarExistsAfterTrigger ==
    \A t \in Requests : feed_pc[t] = "read" => file_metadata # 0

\* C28: .default and .render_complete are never both present in the output
\* directory: a key whose jobs were all copies never gets the completion
\* marker.
TerminalStatesAreExclusive ==
    ~(is_default /\ is_render_complete)

\* C9: a failing job is fatal for that job only: no other job of the batch
\* is kept from running (none is cancelled), render_jobs raises only when
\* a job failed, and it returns only when every job succeeded.
FailureIsFatalForThatJobOnly ==
    /\ \A i \in DOMAIN fs : fs[i] # "cancelled"
    /\ map_pc = "raised" => \E i \in DOMAIN fs : fs[i] = "failed"
    /\ map_pc = "returned" => \A i \in DOMAIN fs : fs[i] = "done"

(***************************************************************************)
(* Properties of segment.                                                  *)
(***************************************************************************)
RECURSIVE Flatten(_)

Flatten(groups) ==
    IF groups = <<>> THEN <<>>
                     ELSE Head(groups) \o Flatten(Tail(groups))

RECURSIVE total_cost(_, _)

\* The sum of the groups' costs.
total_cost(groups, c) ==
    IF groups = <<>> THEN 0
                     ELSE c[Head(groups)] + total_cost(Tail(groups), c)

RECURSIVE all_segmentations(_)

\* Every way of cutting v into contiguous non-empty groups.
all_segmentations(v) ==
    IF v = <<>>
      THEN {<<>>}
      ELSE UNION {{<<SubSeq(v, 1, k)>> \o rest :
                      rest \in all_segmentations(SubSeq(v, k + 1, Len(v)))} :
                  k \in 1..Len(v)}

\* C10: for every cost function and every non-empty input, the groups
\* segment returns are non-empty, concatenate back to the input in order,
\* and their total cost is the minimum over all partitions of the input
\* into contiguous non-empty groups.
SegmentIsOptimalPartition ==
    out_sequence # <<>> =>
        /\ \A k \in 1..Len(out_sequence) : out_sequence[k] # <<>>
        /\ Flatten(out_sequence) = values
        /\ out_sequence \in all_segmentations(values)
        /\ \A p \in all_segmentations(values) :
              total_cost(out_sequence, cost_func) <= total_cost(p, cost_func)

\* segment split an input of three values into two groups that cost less
\* than the input as one group and less than one group per value.
SegmentSplitsWhereCheaper ==
    /\ Len(values) = 3
    /\ Len(out_sequence) = 2
    /\ total_cost(out_sequence, cost_func) < cost_func[values]
    /\ total_cost(out_sequence, cost_func) <
          total_cost([k \in 1..3 |-> <<values[k]>>], cost_func)

(***************************************************************************)
(* Properties of RenderJob.                                                *)
(***************************************************************************)
\* The class the specification gives a job.
classify(inputs) ==
    IF /\ Cardinality(DOMAIN inputs) = 1
       /\ \E i \in DOMAIN inputs : inputs[i].start \in {None, 0} /\ inputs[i].end = None
      THEN "copy"
      ELSE IF \A i, j \in DOMAIN inputs : inputs[i].path = inputs[j].path
        THEN "extract"
        ELSE "merge"

\* C11: a job is copy iff it has exactly one subset whose start is None or
\* 0 and whose end is None, else extract iff all its subsets share one
\* path, else merge; calling the job copies the file, extracts or merges
\* according to exactly this class.
CallDispatchesOnClass ==
    dispatched # <<>> =>
        /\ classify(file_inputs) = "copy" <=> dispatched[1] = "copyfile"
        /\ classify(file_inputs) = "extract" <=> dispatched[1] = "_extract_subset"
        /\ classify(file_inputs) = "merge" <=> dispatched[1] = "_merge_subsets"
        /\ RenderJob_is_copy_job(file_inputs) <=> classify(file_inputs) = "copy"

\* A job whose only subset starts at 0 and has an end set was called and
\* extracted, not copied.
SingleSubsetWithEndExtracted ==
    /\ Len(file_inputs) = 1
    /\ file_inputs[1].start = 0
    /\ file_inputs[1].end # None
    /\ dispatched # <<>>
    /\ dispatched[1] = "_extract_subset"

(***************************************************************************)
(* Properties of chapter resolution.                                       *)
(***************************************************************************)
\* The pairs of out that belong to file p.
emitted(p) ==
    SelectSeq(out, LAMBDA e : e[1] = p)

same_times(a, b) ==
    a.start_time = b.start_time /\ a.end_time = b.end_time

\* File p contributed exactly one chapter, from 0 to the file's duration.
one_duration_chapter(p) ==
    /\ Len(emitted(p)) = 1
    /\ emitted(p)[1][2].start_time = 0
    /\ emitted(p)[1][2].end_time = file_infos[p].duration

\* File p contributed its embedded chapters, all of them and in order.
own_chapters(p) ==
    /\ Len(emitted(p)) = Len(file_infos[p].chapters)
    /\ \A k \in 1..Len(emitted(p)) :
          same_times(emitted(p)[k][2], file_infos[p].chapters[k])

\* C12: the chapters are emitted in file order, every file's chapters in
\* their own order, and the numbers increase by exactly 1 from each emitted
\* chapter to the next, also across files, whatever the chapters' own
\* numbers; the first number is the first emitted chapter's own, or 1 when
\* that chapter is synthetic.
ChaptersNumberedInOneSequence ==
    returned = "get_multipath_chapter_info" =>
        /\ \A k \in 1..(Len(out) - 1) :
              /\ out[k][1] <= out[k + 1][1]
              /\ out[k + 1][2].num = out[k][2].num + 1
        /\ \A p \in DOMAIN file_infos :
              emitted(p) = <<>> \/ one_duration_chapter(p) \/ own_chapters(p)
        /\ out # <<>> =>
              LET own == file_infos[out[1][1]].chapters
              IN  IF own # <<>> /\ same_times(out[1][2], own[1])
                    THEN out[1][2].num = own[1].num
                    ELSE out[1][2].num = 1

\* Three chapters of two files were emitted as 7, 8, 9 although the last
\* one carries the number 0 in its file.
RenumberedAcrossFiles ==
    /\ returned = "get_multipath_chapter_info"
    /\ Len(out) = 3
    /\ out[1][2].num = 7
    /\ out[3][2].num = 9
    /\ out[3][1] = 2
    /\ own_chapters(2)
    /\ file_infos[2].chapters[Len(file_infos[2].chapters)].num = 0

\* C13: a file without embedded chapters contributes exactly one chapter
\* from 0 to its duration when fall_back_to_durations is set and nothing
\* when it is not; two such files of durations d1 and d2 resolve to the
\* chapters 1: (0, d1) and 2: (0, d2).
ChapterlessFileFallsBackToDuration ==
    returned = "get_multipath_chapter_info" =>
        /\ \A p \in DOMAIN file_infos :
              file_infos[p].chapters = <<>> =>
                 IF fall_back_to_durations THEN one_duration_chapter(p)
                                           ELSE emitted(p) = <<>>
        /\ (/\ Len(fpaths) = 2
            /\ fall_back_to_durations
            /\ \A p \in DOMAIN file_infos : file_infos[p].chapters = <<>>) =>
              out = << <<1, ChapterInfo(1, 0, file_infos[1].duration)>>,
                       <<2, ChapterInfo(2, 0, file_infos[2].duration)>> >>

\* Two files without chapters and with different durations were resolved
\* with the fallback.
TwoChapterlessFilesResolved ==
    /\ returned = "get_multipath_chapter_info"
    /\ fall_back_to_durations
    /\ Len(fpaths) = 2
    /\ \A p \in DOMAIN file_infos : file_infos[p].chapters = <<>>
    /\ file_infos[1].duration # file_infos[2].duration
    /\ Len(out) = 2

\* File p is treated as having no usable chapters.
treated_as_chapterless(p) ==
    IF fall_back_to_durations THEN one_duration_chapter(p)
                              ELSE emitted(p) = <<>>

\* C19 as stated: a file with an embedded chapter that ends after the
\* file's duration is treated as having no usable chapters.
ChapterEndingAfterFileIsUnusable ==
    returned = "get_multipath_chapter_info" =>
        \A p \in DOMAIN file_infos :
            (\E i \in DOMAIN file_infos[p].chapters :
                 file_infos[p].chapters[i].end_time > file_infos[p].duration)
              => treated_as_chapterless(p)

\* C19 as amended: a file with an embedded chapter that starts after the
\* file's duration is treated as having no usable chapters: none of its
\* embedded chapters is emitted, and it gets one whole-file chapter with the
\* fallback and none without.
ChapterStartingAfterFileIsUnusable ==
    returned = "get_multipath_chapter_info" =>
        \A p \in DOMAIN file_infos :
            (\E i \in DOMAIN file_infos[p].chapters :
                 file_infos[p].chapters[i].start_time > file_infos[p].duration)
              => treated_as_chapterless(p)

\* A file with two embedded chapters, one of which starts after the file
\* ends, was resolved to its whole-file chapter.
BadChapterFileFellBack ==
    /\ returned = "get_multipath_chapter_info"
    /\ fall_back_to_durations
    /\ Len(file_infos[1].chapters) = 2
    /\ \E i \in DOMAIN file_infos[1].chapters :
          file_infos[1].chapters[i].start_time > file_infos[1].duration
    /\ one_duration_chapter(1)

(***************************************************************************)
(* Properties of _merge_file_infos.                                        *)
(***************************************************************************)
\* C14: merge(a, b) has the duration a.duration + b.duration, keeps a's
\* chapters first (number and start of each; the end too, but for a's last
\* chapter) and then holds every chapter of b, in order, with its number
\* and with start and end both moved by a.duration.
MergeAddsDurationsAndShiftsChapters ==
    merge_args # <<>> =>
        LET a == merge_args[1]
            b == merge_args[2]
            na == Len(a.chapters)
        IN  /\ merged.duration = a.duration + b.duration
            /\ Len(merged.chapters) = na + Len(b.chapters)
            /\ \A k \in 1..na :
                  /\ merged.chapters[k].num = a.chapters[k].num
                  /\ merged.chapters[k].start_time = a.chapters[k].start_time
                  /\ k < na => merged.chapters[k].end_time = a.chapters[k].end_time
            /\ \A k \in 1..Len(b.chapters) :
                  merged.chapters[na + k] =
                      ChapterInfo(b.chapters[k].num,
                                  b.chapters[k].start_time + a.duration,
                                  b.chapters[k].end_time + a.duration)

\* A FileInfo with two chapters and one with one chapter, of different
\* durations, were merged.
MergedTwoChapteredFiles ==
    /\ merge_args # <<>>
    /\ Len(merge_args[1].chapters) = 2
    /\ Len(merge_args[2].chapters) = 1
    /\ merge_args[1].duration # merge_args[2].duration
    /\ Len(merged.chapters) = 3

\* C15: when both operands have chapters and b's first chapter starts at
\* s > 0, a's last chapter ends s later in the merged list, which is
\* exactly where b's first chapter starts there: no gap and no overlap.
MergeLeavesNoGapAtBoundary ==
    merge_args # <<>> =>
        LET a == merge_args[1]
            b == merge_args[2]
            na == Len(a.chapters)
        IN  (na > 0 /\ b.chapters # <<>> /\ b.chapters[1].start_time > 0) =>
               /\ merged.chapters[na].end_time =
                     a.chapters[na].end_time + b.chapters[1].start_time
               /\ merged.chapters[na].end_time = merged.chapters[na + 1].start_time

\* The chapter numbers of a chapter list are strictly increasing.
nums_increasing(chapters) ==
    \A k \in 1..(Len(chapters) - 1) : chapters[k].num < chapters[k + 1].num

\* C21: merge(a, b) renumbers b's chapters as well as shifting them: when
\* each operand's chapters are numbered increasingly, as a probe numbers
\* them, the numbers of the merged list are strictly increasing, so b's
\* chapters continue after a's last chapter number.
MergeRenumbersRightChapters ==
    ( /\ merge_args # <<>>
      /\ nums_increasing(merge_args[1].chapters)
      /\ nums_increasing(merge_args[2].chapters) )
    => nums_increasing(merged.chapters)

(***************************************************************************)
(* Properties of calculate_chapter_splits.                                 *)
(***************************************************************************)
\* The returned jobs are the resolved chapters, one each and in order: job
\* k writes the file named by chapter k and starts with that chapter's part
\* of its file.
OneJobPerResolvedChapter ==
    returned = "calculate_chapter_splits" =>
        /\ Len(job_pool) = Len(out)
        /\ \A k \in 1..Len(out) :
             /\ job_pool[k].out_path = out[k][2].num
             /\ job_pool[k].file_inputs[1].path = out[k][1]
             /\ job_pool[k].file_inputs[1].start = out[k][2].start_time

\* One iteration of the loop: the jobs before the last one stay, the last
\* one is replaced as described when the chapter taken is the first of a
\* new file and starts at s > 0, and stays otherwise.
PreviousJobAbsorbsContinuation ==
    n_planned' = n_planned + 1 =>
        LET k == Len(job_pool)
            fpath == out[n_planned + 1][1]
            s == out[n_planned + 1][2].start_time
        IN  /\ Len(job_pool') = k + 1
            /\ \A j \in 1..(k - 1) : job_pool'[j] = job_pool[j]
            /\ k > 0 =>
                 IF fpath # out[n_planned][1] /\ s > 0
                   THEN /\ job_pool'[k].out_path = job_pool[k].out_path
                        /\ job_pool'[k].file_inputs =
                             job_pool[k].file_inputs \o <<FileSubset(fpath, None, s)>>
                        /\ job_pool'[k].out_file_info.chapters[1].end_time =
                             job_pool[k].out_file_info.chapters[1].end_time + s
                   ELSE job_pool'[k] = job_pool[k]

\* C16: chapter_split planning yields exactly one job per resolved chapter,
\* in chapter order; when the first chapter of a new file starts at s > 0
\* and a job was already emitted, that job is replaced by one with the same
\* output path, the same subsets plus a trailing (new file, None, s), and a
\* synthesized chapter whose end_time is increased by s.
ChapterSplitsPlanOneJobPerChapter ==
    /\ []OneJobPerResolvedChapter
    /\ [][PreviousJobAbsorbsContinuation]_vars

\* Witness of C16: the planning returned two jobs or more and the first one
\* was extended with the beginning of the second file.
SplitJobExtendedIntoNextFile ==
    /\ returned = "calculate_chapter_splits"
    /\ Len(job_pool) >= 2
    /\ Len(job_pool[1].file_inputs) = 2
    /\ job_pool[1].file_inputs[2].path = 2
    /\ job_pool[1].file_inputs[2].end > 0

(***************************************************************************)
(* Properties of calculate_segments.                                       *)
(***************************************************************************)
\* Group k of the segmentation is one chapter.
single_chapter_group(k) ==
    Len(segmented[k]) = 1

\* format_info.duration of the file that the one chapter of group k is in.
underlying_duration(k) ==
    file_infos[segmented[k][1].fpath].duration

\* The one chapter of group k starts at 0 and ends within the tolerance of
\* the end of its file.
spans_whole_file(k) ==
    LET chapter == segmented[k][1].chapter
    IN  /\ chapter.start_time = 0
        /\ abs(chapter.end_time - underlying_duration(k)) < tolerance

\* C17: a group made of a single chapter that spans its whole file yields a
\* job whose only subset leaves the end open, so the job is a copy job; and
\* when the input files are chapterless and the segmentation puts every one
\* in its own group, all planned jobs are copy jobs.
WholeFileGroupsAreCopyJobs ==
    returned = "calculate_segments" =>
        /\ \A k \in 1..Len(segmented) :
             single_chapter_group(k) /\ spans_whole_file(k) =>
                 /\ Len(job_queue[k].file_inputs) = 1
                 /\ job_queue[k].file_inputs[1].end = None
                 /\ RenderJob_is_copy_job(job_queue[k].file_inputs)
        /\ ( /\ \A p \in DOMAIN file_infos : file_infos[p].chapters = <<>>
             /\ \A k \in 1..Len(segmented) : single_chapter_group(k) )
           => \A k \in 1..Len(job_queue) :
                  RenderJob_is_copy_job(job_queue[k].file_inputs)

\* Witness of C17: two chapterless files of different durations were
\* planned, each in its own group.
ChapterlessFilesPlannedApart ==
    /\ returned = "calculate_segments"
    /\ Len(fpaths) = 2
    /\ \A p \in DOMAIN file_infos : file_infos[p].chapters = <<>>
    /\ file_infos[1].duration # file_infos[2].duration
    /\ Len(segmented) = 2
    /\ Len(job_queue) = 2

\* C20: a group made of a single chapter whose underlying file is longer
\* than the chapter yields a job whose subset starts at the chapter's
\* start_time and ends at the chapter's end_time.
SingleChapterOfLongerFileIsTrimmed ==
    returned = "calculate_segments" =>
        \A k \in 1..Len(segmented) :
            LET chapter == segmented[k][1].chapter
            IN  ( /\ single_chapter_group(k)
                  /\ underlying_duration(k) > chapter_duration(chapter) )
                => job_queue[k].file_inputs =
                       <<FileSubset(segmented[k][1].fpath,
                                    chapter.start_time, chapter.end_time)>>

degenerate(chapter) ==
    chapter.end_time <= chapter.start_time

\* C23: a chapter whose end is less than or equal to its start is dropped
\* and no job is planned for it, while the other chapters of the batch are
\* still planned: the jobs are those of the resolved chapters that are not
\* degenerate, one each and in order.
DegenerateChaptersAreDropped ==
    returned = "calculate_chapter_splits" =>
        LET kept == SelectSeq(out, LAMBDA e : ~degenerate(e[2]))
        IN  /\ Len(job_pool) = Len(kept)
            /\ \A k \in 1..Len(kept) : job_pool[k].out_path = kept[k][2].num

\* C22: the chapters that resolution yields for one file, as the
\* segmentation input, tile the file: the first starts at 0, each starts
\* where the previous one ends, and the last ends at the file's duration.
ResolvedChaptersTileTheFile ==
    returned = "calculate_segments" =>
        \A p \in DOMAIN file_infos :
            LET chapters == emitted(p)
            IN  chapters # <<>> =>
                  /\ chapters[1][2].start_time = 0
                  /\ \A k \in 1..(Len(chapters) - 1) :
                        chapters[k + 1][2].start_time = chapters[k][2].end_time
                  /\ chapters[Len(chapters)][2].end_time = file_infos[p].duration

(***************************************************************************)
(* Properties of the legacy marker tag.                                    *)
(***************************************************************************)
\* The marker tag of the file's report has another root than Markers, or a
\* time with more than three components.
malformed(xml) ==
    \/ xml.root # "Markers"
    \/ \E k \in DOMAIN xml.children : Len(xml.children[k].time) > 3

\* C24: parsing a malformed legacy marker tag fails with a parse error, and
\* the caller that builds the file's chapters catches it and falls back to
\* duration-based chapters, so that chapter resolution returns the file's
\* one duration chapter.
MalformedMarkersFallBackToDuration ==
    \A p \in DOMAIN probe_json :
        ( /\ probe_json[p].chapters = <<>>
          /\ probe_json[p].markers # NoTag
          /\ malformed(probe_json[p].markers) )
        => /\ from_xml(probe_json[p].markers).raised = "ValueError"
           /\ returned # "" =>
                 /\ returned = "get_multipath_chapter_info"
                 /\ one_duration_chapter(p)


(***************************************************************************)
(* The audio that the subsets of a planned job select.                     *)
(***************************************************************************)
\* A bound of a subset, None standing for the end of the file it is on.
resolved(bound, file_end) ==
    IF bound = None THEN file_end ELSE bound

\* m4btools.py line 70-89: the length of what the job reads, each subset
\* from its start (None is the start of the file) to its end (None is the
\* end of the file).
RECURSIVE selected_length(_)
selected_length(inputs) ==
    IF inputs = <<>>
      THEN 0
      ELSE (resolved(inputs[1].end, file_infos[inputs[1].path].duration)
              - resolved(inputs[1].start, 0))
           + selected_length(Tail(inputs))

\* C29: for every job planned by calculate_chapter_splits or by
\* calculate_segments, the total length selected by the job's subsets is
\* the sum of the durations of the job's member chapters and is the
\* duration of the job's synthesized FileInfo.
SubsetsSelectMemberChapters ==
    /\ returned = "calculate_chapter_splits" =>
         \A k \in 1..Len(job_pool) :
            /\ selected_length(job_pool[k].file_inputs) =
                   chapter_duration(out[k][2])
            /\ selected_length(job_pool[k].file_inputs) =
                   job_pool[k].out_file_info.duration
    /\ returned = "calculate_segments" =>
         \A k \in 1..Len(job_queue) :
            /\ selected_length(job_queue[k].file_inputs) =
                   sum_float(segmented[k])
            /\ selected_length(job_queue[k].file_inputs) =
                   job_queue[k].out_file_info.duration

(***************************************************************************)
(* Properties of the sidecar.                                              *)
(***************************************************************************)
\* C30: writing the sidecar and reading it back returns the mapping that
\* was written: the same relative paths and hashes, and for every FileInfo
\* the same duration and the same chapters with their num, start, end and
\* title.
SidecarRoundTrips ==
    metadata_out # <<>> =>
        /\ DOMAIN metadata_out = DOMAIN metadata_in
        /\ \A file_path \in DOMAIN metadata_in :
             LET written == metadata_in[file_path]
                 read == metadata_out[file_path]
             IN  /\ read[2] = written[2]
                 /\ read[1].duration = written[1].duration
                 /\ Len(read[1].chapters) = Len(written[1].chapters)
                 /\ \A i \in 1..Len(written[1].chapters) :
                      /\ read[1].chapters[i].num = written[1].chapters[i].num
                      /\ read[1].chapters[i].start_time = written[1].chapters[i].start_time
                      /\ read[1].chapters[i].end_time = written[1].chapters[i].end_time
                      /\ read[1].chapters[i].title = written[1].chapters[i].title
====
